---- MODULE Spec2Model ----
(***************************************************************************)
(* Model of the M15B3 financial panel: the reminder mailer                 *)
(* (src/reminders.py) and the Streamlit dashboard (src/app.py).            *)
(*                                                                         *)
(* Dates are spreadsheet serials (days since 1899-12-30).  Money is an     *)
(* integer number of cents.  The two programs are independent processes    *)
(* that share no runtime state; a behaviour of the model is one mailer     *)
(* run or one dashboard session (variable proc).                           *)
(***************************************************************************)
EXTENDS Integers, Sequences, FiniteSets, TLC

(***************************************************************************)
(* Bounds of the model.                                                    *)
(***************************************************************************)
\* first day the clock may show when a process starts: 44996 = Sat 2023-03-11
FirstDay == 44996
\* number of consecutive days a process may start on
NumDays == 14
\* longest movbank table returned by the spreadsheet API
MaxRows == 2
\* number of midnights that may pass during one process
MaxTicks == 1
\* balance held in the numeric cell src!B7, in cents
SaldoNum == 10
\* failed login submits after which the model stops counting
MaxFails == 2
\* longest text of src!B7 built from SaldoChars
MaxText == 4
\* largest serial of the numeric date cells counted from the epoch
MaxSerial == 800
\* largest subscribed / paid-in amount of a partner, besides the amounts of
\* PartnerExamples
MaxCota == 12

(***************************************************************************)
(* Calendar.                                                               *)
(***************************************************************************)
\* pd.NaT / NaN of a date column
NaT == 0 - 1

\* serial of 1970-01-01 counted from the epoch 1899-12-30
UnixEpochSerial == 25569

IsLeap(y) == (y % 4 = 0 /\ y % 100 # 0) \/ y % 400 = 0

DaysInMonth(y, m) ==
    IF m = 2 THEN (IF IsLeap(y) THEN 29 ELSE 28)
    ELSE IF m \in {4, 6, 9, 11} THEN 30 ELSE 31

\* slip: the century rule of the leap years is forgotten
date_to_serial_julian(y, m, d) ==
    LET yy  == IF m <= 2 THEN y - 1 ELSE y
        era == yy \div 400
        yoe == yy - era * 400
        mp  == (m + 9) % 12
        doy == (153 * mp + 2) \div 5 + d - 1
        doe == yoe * 365 + yoe \div 4 + doy
    IN  era * 146097 + doe - 719468 + UnixEpochSerial

\* (date - pd.to_datetime("1899-12-30")).dt.days for the civil date y-m-d
date_to_serial(y, m, d) ==
    LET yy  == IF m <= 2 THEN y - 1 ELSE y
        era == yy \div 400
        yoe == yy - era * 400
        mp  == (m + 9) % 12
        doy == (153 * mp + 2) \div 5 + d - 1
        doe == yoe * 365 + yoe \div 4 - yoe \div 100 + doy
    IN  era * 146097 + doe - 719468 + UnixEpochSerial

\* pd.to_datetime("1899-12-30") + pd.to_timedelta(n, unit="D"), as <<y, m, d>>
serial_to_date(n) ==
    LET z   == n - UnixEpochSerial + 719468
        era == z \div 146097
        doe == z - era * 146097
        yoe == (doe - doe \div 1460 + doe \div 36524 - doe \div 146096) \div 365
        doy == doe - (365 * yoe + yoe \div 4 - yoe \div 100)
        mp  == (5 * doy + 2) \div 153
        d   == doy - (153 * mp + 2) \div 5 + 1
        m   == IF mp < 10 THEN mp + 3 ELSE mp - 9
        y   == yoe + era * 400 + (IF m <= 2 THEN 1 ELSE 0)
    IN  <<y, m, d>>

\* date.weekday() of the date with serial n: Monday = 0 ... Sunday = 6
weekday(n) == (n + 5) % 7

(***************************************************************************)
(* Raw spreadsheet cells.                                                  *)
(***************************************************************************)
NumCell(n)       == [k |-> "num", a |-> n, b |-> 0, c |-> 0]
TxtCell(d, m, y) == [k |-> "txt", a |-> d, b |-> m, c |-> y]
\* an empty cell or a text that is neither a number nor a date
BadCell          == [k |-> "bad", a |-> 0, b |-> 0, c |-> 0]

\* pd.to_numeric(cell, errors="coerce")
to_numeric(cell) == IF cell.k = "num" THEN cell.a ELSE NaT

\* pd.to_datetime(cell, dayfirst=True, errors="coerce") of a text cell
\* "dd/mm/yyyy", then (dt - epoch).dt.days
to_datetime_days(cell) ==
    IF /\ cell.k = "txt"
       /\ cell.b \in 1..12
       /\ cell.a \in 1..DaysInMonth(cell.c, cell.b)
    THEN date_to_serial(cell.c, cell.b, cell.a)
    ELSE NaT

\* the numeric parse first, the text parse for the cells it left NaN
CellToSerialVecto(cell) ==
    IF to_numeric(cell) # NaT THEN to_numeric(cell) ELSE to_datetime_days(cell)

(***************************************************************************)
(* Currency cell src!B7.  A text cell is a sequence of one-character       *)
(* strings; a parsed amount is a number of cents.                          *)
(***************************************************************************)
Digits == <<"0", "1", "2", "3", "4", "5", "6", "7", "8", "9">>

IsDigit(ch) == \E i \in 1..10 : Digits[i] = ch

DigitVal(ch) == (CHOOSE i \in 1..10 : Digits[i] = ch) - 1

RECURSIVE RemoveChar(_, _)
\* s.replace(ch, "")
RemoveChar(s, ch) ==
    IF s = <<>> THEN <<>>
    ELSE IF Head(s) = ch THEN RemoveChar(Tail(s), ch)
    ELSE <<Head(s)>> \o RemoveChar(Tail(s), ch)

RECURSIVE ReplaceChar(_, _, _)
\* s.replace(from, to) for one-character from and to
ReplaceChar(s, from, to) ==
    IF s = <<>> THEN <<>>
    ELSE <<IF Head(s) = from THEN to ELSE Head(s)>> \o ReplaceChar(Tail(s), from, to)

RECURSIVE RemoveRS(_)
\* s.replace("R$", "")
RemoveRS(s) ==
    IF Len(s) < 2 THEN s
    ELSE IF s[1] = "R" /\ s[2] = "$" THEN RemoveRS(Tail(Tail(s)))
    ELSE <<Head(s)>> \o RemoveRS(Tail(s))

HasChar(s, ch) == \E i \in 1..Len(s) : s[i] = ch

RECURSIVE DigitsValue(_, _)
\* value of a run of digits, acc being the value of the digits already read
DigitsValue(s, acc) ==
    IF s = <<>> THEN acc ELSE DigitsValue(Tail(s), acc * 10 + DigitVal(Head(s)))

AllDigits(s) == \A i \in 1..Len(s) : IsDigit(s[i])

\* float(s) for a plain decimal literal [sign] digits [. digits]; ok = FALSE
\* is the ValueError.  The value is in cents, decimals after the second cut.
float_cents(s) ==
    LET neg  == s # <<>> /\ Head(s) = "-"
        body == IF s # <<>> /\ Head(s) \in {"-", "+"} THEN Tail(s) ELSE s
        dots == {i \in 1..Len(body) : body[i] = "."}
        p    == IF dots = {} THEN Len(body) + 1 ELSE CHOOSE i \in dots : TRUE
        ip   == SubSeq(body, 1, p - 1)
        fp   == SubSeq(body, p + 1, Len(body))
        fp2  == SubSeq(fp \o <<"0", "0">>, 1, 2)
        ok   == /\ Cardinality(dots) <= 1
                /\ AllDigits(ip) /\ AllDigits(fp)
                /\ Len(ip) + Len(fp) > 0
        mag  == DigitsValue(ip, 0) * 100 + DigitsValue(fp2, 0)
    IN  IF ok THEN [ok |-> TRUE, v |-> IF neg THEN 0 - mag ELSE mag]
        ELSE [ok |-> FALSE, v |-> 0]

\* slip: the separators read in the US form (',' removed, '.' decimal)
parse_saldo_us(raw) ==
    IF raw.k = "num" THEN raw.v
    ELSE
        LET s1 == RemoveChar(RemoveRS(raw.s), " ")
            f  == float_cents(RemoveChar(s1, ","))
        IN  IF f.ok THEN f.v ELSE 0

\* the conversion of the raw value of src!B7 (reminders.py and app.py alike)
parse_saldo(raw) ==
    IF raw.k = "num" THEN raw.v
    ELSE
        LET s1 == RemoveChar(RemoveRS(raw.s), " ")
            s2 == IF HasChar(s1, ",") /\ HasChar(s1, ".")
                  THEN ReplaceChar(RemoveChar(s1, "."), ",", ".")
                  ELSE IF HasChar(s1, ",") /\ ~HasChar(s1, ".")
                  THEN ReplaceChar(s1, ",", ".")
                  ELSE s1
            f  == float_cents(s2)
        IN  IF f.ok THEN f.v ELSE 0

NumSaldo(v) == [k |-> "num", v |-> v, s |-> <<>>]
TxtSaldo(s) == [k |-> "txt", v |-> 0, s |-> s]

\* the values src!B7 holds in the model: a number and the text "R$ 1,50"
SaldoCells ==
    { NumSaldo(SaldoNum),
      TxtSaldo(<<"R", "$", " ", "1", ",", "5", "0">>) }

(***************************************************************************)
(* The movbank table.                                                      *)
(***************************************************************************)
\* the STATUS values of the rows of the model (the sheet also uses ATRASADO and
\* AGENDADO, which the mailer treats like PREVISTO)
Statuses == {"PAGO", "PREVISTO"}

\* the VECTO cells of the model: a serial (a Friday when FirstDay is a
\* Saturday), the text 18/03/2023 (a Saturday, serial 45003), a broken cell
VectoCells == {NumCell(FirstDay + 6), TxtCell(18, 3, 2023), BadCell}

\* the DATA DE PGTO cells of the model: empty, or the serial of the day after
\* the numeric VECTO
PgtoCells == {BadCell, NumCell(FirstDay + 7)}

RawRows == [VECTO : VectoCells, PGTO : PgtoCells, STATUS : Statuses]

\* VALOR of the i-th row of a table, in cents: 1, 2, 4, ... so that a sum of
\* amounts tells which rows were added
RECURSIVE ValorOf(_)
ValorOf(i) == IF i <= 1 THEN 1 ELSE 2 * ValorOf(i - 1)

\* the tables the rows endpoint may return
Tables == UNION {[1..n -> RawRows] : n \in 0..MaxRows}

\* slip: the reference date ignores the payment date
DATA_REF_vecto_only(pgto_dt, vecto_dt) == vecto_dt

\* df["DATA_REF"] = df["PGTO_DT"].where(df["PGTO_DT"].notna(), df["VECTO_DT"])
DATA_REF(pgto_dt, vecto_dt) == IF pgto_dt # NaT THEN pgto_dt ELSE vecto_dt

\* load_movbank after read_table: the derived columns of every row; idx is the
\* row's label in the DataFrame index.  pgcol is "DATA DE PGTO" in df.columns.
load_movbank(raw, pgcol) ==
    [i \in 1..Len(raw) |->
        LET vecto_dt == CellToSerialVecto(raw[i].VECTO)
            pgto_dt  == IF pgcol THEN CellToSerialVecto(raw[i].PGTO) ELSE NaT
        IN  [idx      |-> i,
             VALOR    |-> ValorOf(i),
             STATUS   |-> raw[i].STATUS,
             VECTO_DT |-> vecto_dt,
             PGTO_DT  |-> pgto_dt,
             DATA_REF |-> DATA_REF(pgto_dt, vecto_dt)]]

\* slip: NaT ordered before every date
DateLt_nat_first(a, b) == a < b

\* comparisons of a datetime column with a date: NaT compares False
DateEq(a, b) == a # NaT /\ a = b
DateLt(a, b) == a # NaT /\ a < b
DateGe(a, b) == a # NaT /\ a >= b
DateLe(a, b) == a # NaT /\ a <= b

\* sort order of sort_values(ascending=True): NaT last
KeyLe(a, b) == b = NaT \/ (a # NaT /\ a <= b)

RECURSIVE InsertBy(_, _, _)
InsertBy(r, s, col) ==
    IF s = <<>> THEN <<r>>
    ELSE IF KeyLe(r[col], s[1][col]) THEN <<r>> \o s
    ELSE <<s[1]>> \o InsertBy(r, Tail(s), col)

RECURSIVE sort_values(_, _)
\* df.sort_values(col, ascending=True); rows with equal keys keep their order
sort_values(df, col) ==
    IF df = <<>> THEN <<>>
    ELSE InsertBy(df[1], sort_values(Tail(df), col), col)

RECURSIVE SumValor(_)
\* df["VALOR"].sum()
SumValor(df) == IF df = <<>> THEN 0 ELSE df[1].VALOR + SumValor(Tail(df))

(***************************************************************************)
(* HTTP responses of the identity endpoint and of the spreadsheet API.     *)
(*   token : "ok", or "non2xx" (raise_for_status raises HTTPError)         *)
(*   body  : "ok"/"values" a JSON body with the data, "error" a JSON body  *)
(*           with an error key (what the API sends with a non-2xx status), *)
(*           "notjson" a body that is not JSON (r.json() raises),          *)
(*           "novalues" a JSON body with neither error nor values          *)
(***************************************************************************)
TokenResps == {"ok", "non2xx"}

CellResps ==
    {[body |-> "values", raw |-> c] : c \in SaldoCells}
    \cup {[body |-> b, raw |-> NumSaldo(0)] : b \in {"error", "notjson", "novalues"}}

\* the columns response: "ok" names every column, "ok_nopgto" lacks DATA DE PGTO
ColsResps == {"ok", "ok_nopgto", "error", "notjson"}

RowsRespsOk == {[body |-> "ok", values |-> t] : t \in Tables}

RowsRespsBad == {[body |-> b, values |-> <<>>] : b \in {"error", "notjson"}}

\* a call that was never made because an earlier one raised
NotCalled == "not_called"

\* get_graph_token: "none" when the token is returned, else the exception raised
get_graph_token(tok) == IF tok = "ok" THEN "none" ELSE "HTTPError"

\* reminders.read_table("movbank"): the exception raised, the DataFrame returned
\* and whether the result is the empty table of an error response
read_table(tok, cols, rows) ==
    IF get_graph_token(tok) # "none"
    THEN [raised |-> get_graph_token(tok), df |-> <<>>, pgcol |-> FALSE, src |-> NotCalled]
    ELSE IF cols = "notjson" \/ rows.body = "notjson"
    THEN [raised |-> "JSONDecodeError", df |-> <<>>, pgcol |-> FALSE, src |-> "notjson"]
    ELSE IF cols = "error" \/ rows.body = "error"
    THEN [raised |-> "none", df |-> <<>>, pgcol |-> FALSE, src |-> "error"]
    ELSE [raised |-> "none", df |-> rows.values, pgcol |-> (cols = "ok"), src |-> "ok"]

\* reminders.read_saldo_atual
read_saldo_atual(tok, cell) ==
    IF get_graph_token(tok) # "none"
    THEN [raised |-> get_graph_token(tok), saldo |-> 0, src |-> NotCalled]
    ELSE IF cell.body = "notjson"
    THEN [raised |-> "JSONDecodeError", saldo |-> 0, src |-> "notjson"]
    ELSE IF cell.body = "error"
    THEN [raised |-> "none", saldo |-> 0, src |-> "error"]
    ELSE IF cell.body = "novalues"
    THEN [raised |-> "none", saldo |-> 0, src |-> "novalues"]
    ELSE [raised |-> "none", saldo |-> parse_saldo(cell.raw), src |-> "values"]

(***************************************************************************)
(* SMTP.                                                                   *)
(***************************************************************************)
\* the settings of the environment, TRUE when the variable is set and not empty
Configs == [SMTP_SERVER : BOOLEAN, SMTP_USER : BOOLEAN, SMTP_PASS : BOOLEAN,
            TO_EMAILS : BOOLEAN]

\* slip: the guard forgets the recipient list
smtp_config_ok_no_recipients(c) == c.SMTP_SERVER /\ c.SMTP_USER /\ c.SMTP_PASS

\* the guard of send_email
smtp_config_ok(c) == c.SMTP_SERVER /\ c.SMTP_USER /\ c.SMTP_PASS /\ c.TO_EMAILS

\* slip: a failed session is followed by a second one
send_email_retry(c, smtp) ==
    IF ~smtp_config_ok(c)
    THEN [raised |-> "RuntimeError", opened |-> 0, sent |-> 0]
    ELSE IF smtp = "fail"
    THEN [raised |-> "SMTPException", opened |-> 2, sent |-> 0]
    ELSE [raised |-> "none", opened |-> 1, sent |-> 1]

\* send_email: the exception raised, the sessions opened and the messages sent
send_email(c, smtp) ==
    IF ~smtp_config_ok(c)
    THEN [raised |-> "RuntimeError", opened |-> 0, sent |-> 0]
    ELSE IF smtp = "fail"
    THEN [raised |-> "SMTPException", opened |-> 1, sent |-> 0]
    ELSE [raised |-> "none", opened |-> 1, sent |-> 1]

(***************************************************************************)
(* run_daily.                                                              *)
(***************************************************************************)
\* slip: today's rows taken by due date
mask_dia_by_due(r, hoje) == r.VECTO_DT # NaT /\ r.VECTO_DT = hoje

\* mask_dia = df["DATA_REF"].dt.date == hoje
mask_dia(r, hoje) == DateEq(r.DATA_REF, hoje)

\* slip: the payment date is not looked at
mask_atraso_any_payment(r, hoje) == r.VECTO_DT # NaT /\ r.VECTO_DT < hoje

\* slip: rows marked PAGO are dropped from the overdue rows
mask_atraso_not_pago(r, hoje) ==
    r.VECTO_DT # NaT /\ r.VECTO_DT < hoje /\ r.PGTO_DT = NaT /\ r.STATUS # "PAGO"

\* mask_atraso = (df["VECTO_DT"].dt.date < hoje) & df["PGTO_DT"].isna()
mask_atraso(r, hoje) == DateLt(r.VECTO_DT, hoje) /\ r.PGTO_DT = NaT

\* df_hoje.loc[df_hoje["STATUS"] == "PAGO", "STATUS"] = "AGENDADO"
relabel(status) == IF status = "PAGO" THEN "AGENDADO" ELSE status

\* df[mask_dia].copy() with the statuses of the copy relabelled, sorted
df_hoje_of(df, hoje) ==
    LET M(r) == mask_dia(r, hoje)
        sel  == SelectSeq(df, M)
    IN  sort_values([i \in 1..Len(sel) |-> [sel[i] EXCEPT !.STATUS = relabel(@)]],
                    "DATA_REF")

\* df[mask_atraso].copy(), sorted
df_atraso_of(df, hoje) ==
    LET M(r) == mask_atraso(r, hoje)
    IN  sort_values(SelectSeq(df, M), "VECTO_DT")

\* slip: the paid rows of the day are looked for in the relabelled copy
total_pago_dia_of_copy(df, hoje) ==
    LET M(r) == r.STATUS = "PAGO"
    IN  SumValor(SelectSeq(df_hoje_of(df, hoje), M))

\* df[mask_dia & (df["STATUS"] == "PAGO")]["VALOR"].sum()
total_pago_dia_of(df, hoje) ==
    LET M(r) == mask_dia(r, hoje) /\ r.STATUS = "PAGO"
    IN  SumValor(SelectSeq(df, M))

\* slip: the balance of the sheet is shown as it is
saldo_ajustado_unadjusted(saldo_atual, total_pago_dia) == saldo_atual

\* saldo_ajustado = saldo_atual + total_pago_dia
saldo_ajustado_of(saldo_atual, total_pago_dia) == saldo_atual + total_pago_dia

\* resumo_diario_html: the figures of the summary block
resumo_diario_html(saldo_atual_ajustado, total_hoje, total_atraso) ==
    [saldo_atual          |-> saldo_atual_ajustado,
     total_hoje           |-> total_hoje,
     saldo_pos_dia        |-> saldo_atual_ajustado - total_hoje,
     com_atraso           |-> total_atraso > 0,
     total_atraso         |-> IF total_atraso > 0 THEN total_atraso ELSE 0,
     saldo_pos_atraso     |-> IF total_atraso > 0
                              THEN saldo_atual_ajustado - total_atraso ELSE 0,
     saldo_pos_dia_atraso |-> IF total_atraso > 0
                              THEN saldo_atual_ajustado - (total_hoje + total_atraso)
                              ELSE 0]

\* the locals of run_daily when no call has run (or the process has left it)
NoDaily ==
    [ran |-> FALSE, vazio |-> FALSE, hoje |-> NaT, saldo_atual |-> 0,
     saldo_src |-> NotCalled, table_src |-> NotCalled, raw_status |-> <<>>,
     df |-> <<>>, df_hoje |-> <<>>, df_atraso |-> <<>>,
     total_hoje |-> 0, total_atraso |-> 0, total_pago_dia |-> 0,
     saldo_ajustado |-> 0, resumo |-> resumo_diario_html(0, 0, 0)]

\* the locals of run_daily at its send_email, from today, the balance read and
\* the table loaded; raw_status is the STATUS column as the API returned it
run_daily_locals(hoje, s, t) ==
    LET df == load_movbank(t.df, t.pgcol)
    IN  IF df = <<>>
        THEN [NoDaily EXCEPT !.ran = TRUE, !.vazio = TRUE, !.hoje = hoje,
                             !.saldo_atual = s.saldo, !.saldo_src = s.src,
                             !.table_src = t.src,
                             !.resumo = resumo_diario_html(s.saldo, 0, 0)]
        ELSE
            LET df_hoje        == df_hoje_of(df, hoje)
                df_atraso      == df_atraso_of(df, hoje)
                total_hoje     == SumValor(df_hoje)
                total_atraso   == SumValor(df_atraso)
                total_pago_dia == total_pago_dia_of(df, hoje)
                saldo_ajustado == saldo_ajustado_of(s.saldo, total_pago_dia)
            IN  [ran |-> TRUE, vazio |-> FALSE, hoje |-> hoje,
                 saldo_atual |-> s.saldo, saldo_src |-> s.src, table_src |-> t.src,
                 raw_status |-> [i \in 1..Len(t.df) |-> t.df[i].STATUS],
                 df |-> df, df_hoje |-> df_hoje, df_atraso |-> df_atraso,
                 total_hoje |-> total_hoje, total_atraso |-> total_atraso,
                 total_pago_dia |-> total_pago_dia,
                 saldo_ajustado |-> saldo_ajustado,
                 resumo |-> resumo_diario_html(saldo_ajustado, total_hoje,
                                               total_atraso)]

(***************************************************************************)
(* run_weekly.                                                             *)
(***************************************************************************)
\* sabado_anterior = hoje - timedelta(days=2)
sabado_anterior(hoje) == hoje - 2

\* sexta_seguinte = hoje + timedelta(days=4)
sexta_seguinte(hoje) == hoje + 4

\* mask_periodo = (DATA_REF >= sabado_anterior) & (DATA_REF <= sexta_seguinte)
mask_periodo(r, inicio, fim) == DateGe(r.DATA_REF, inicio) /\ DateLe(r.DATA_REF, fim)

\* mask_status = df["STATUS"] != "PAGO"
mask_status(r) == r.STATUS # "PAGO"

\* alvo = df[mask_periodo & mask_status].copy(), sorted
alvo_of(df, inicio, fim) ==
    LET M(r) == mask_periodo(r, inicio, fim) /\ mask_status(r)
    IN  sort_values(SelectSeq(df, M), "DATA_REF")

\* resumo_semanal_html: the figures of the summary block
resumo_semanal_html(saldo_atual, total_periodo, inicio, fim) ==
    [saldo_atual   |-> saldo_atual,
     total_periodo |-> total_periodo,
     saldo_final   |-> saldo_atual - total_periodo,
     inicio        |-> inicio,
     fim           |-> fim]

NoWeekly ==
    [ran |-> FALSE, vazio |-> FALSE, hoje |-> NaT,
     sabado_anterior |-> NaT, sexta_seguinte |-> NaT,
     saldo_atual |-> 0, saldo_src |-> NotCalled, table_src |-> NotCalled,
     df |-> <<>>, alvo |-> <<>>, total_periodo |-> 0,
     resumo |-> resumo_semanal_html(0, 0, NaT, NaT)]

\* the locals of run_weekly at its send_email
run_weekly_locals(hoje, s, t) ==
    LET df     == load_movbank(t.df, t.pgcol)
        inicio == sabado_anterior(hoje)
        fim    == sexta_seguinte(hoje)
        alvo   == IF df = <<>> THEN <<>> ELSE alvo_of(df, inicio, fim)
        total  == SumValor(alvo)
    IN  [ran |-> TRUE, vazio |-> (df = <<>>), hoje |-> hoje,
         sabado_anterior |-> inicio, sexta_seguinte |-> fim,
         saldo_atual |-> s.saldo, saldo_src |-> s.src, table_src |-> t.src,
         df |-> df, alvo |-> alvo, total_periodo |-> total,
         resumo |-> resumo_semanal_html(s.saldo, total, inicio, fim)]

(***************************************************************************)
(* State.                                                                  *)
(***************************************************************************)
VARIABLES
    proc,       \* the process of this behaviour: "mailer" or "dashboard"
    clock,      \* the date the system clock shows (serial)
    ticks,      \* midnights passed since the process started
    cfg,        \* the SMTP settings of the environment
    pc,         \* position of __main__: main, daily, daily_sent, weekly, done, aborted
    hoje_main,  \* hoje of __main__
    daily,      \* locals of the last run_daily
    weekly,     \* locals of the last run_weekly
    sessions,   \* SMTP sessions opened
    outbox,     \* messages handed to the relay, in order
    error,      \* the exception that ended the process, "none" otherwise
    auth,       \* st.session_state["auth"]
    login_msg,  \* the inline message of the login form
    fails,      \* failed login submits
    typed,      \* the user and password of the last login submit
    dash,       \* what the last run of dashboard() rendered
    fn          \* a function called on its own: its argument and its result

vars == <<proc, clock, ticks, cfg, pc, hoje_main, daily, weekly, sessions,
          outbox, error, auth, login_msg, fails, typed, dash, fn>>

(***************************************************************************)
(* The dashboard (app.py).                                                 *)
(***************************************************************************)
\* APP_USER and APP_PASS of the environment, and what a visitor may type
APP_USER == "admin"
APP_PASS == "secret"
TypedUsers == {"admin", "guest"}
TypedPasses == {"secret", "wrong"}

\* the rows of movbank as the dashboard reads them (it ignores DATA DE PGTO)
DashRawRows == [VECTO : VectoCells, STATUS : Statuses]
DashTables == UNION {[1..n -> DashRawRows] : n \in 0..MaxRows}
DashRowsRespsOk == {[body |-> "ok", values |-> t] : t \in DashTables}

\* app.read_table: a body that is not JSON gives the empty table
app_read_table(tok, cols, rows) ==
    IF get_graph_token(tok) # "none"
    THEN [raised |-> get_graph_token(tok), df |-> <<>>, src |-> NotCalled]
    ELSE IF cols = "notjson" \/ rows.body = "notjson"
    THEN [raised |-> "none", df |-> <<>>, src |-> "notjson"]
    ELSE IF cols = "error" \/ rows.body = "error"
    THEN [raised |-> "none", df |-> <<>>, src |-> "error"]
    ELSE [raised |-> "none", df |-> rows.values, src |-> "ok"]

\* app.read_cell: r.json() is outside any try
read_cell(tok, cell) ==
    IF get_graph_token(tok) # "none"
    THEN [raised |-> get_graph_token(tok), saldo |-> 0, src |-> NotCalled]
    ELSE IF cell.body = "notjson"
    THEN [raised |-> "JSONDecodeError", saldo |-> 0, src |-> "notjson"]
    ELSE IF cell.body \in {"error", "novalues"}
    THEN [raised |-> "none", saldo |-> 0, src |-> cell.body]
    ELSE [raised |-> "none", saldo |-> parse_saldo(cell.raw), src |-> "values"]

\* the VECTO_NUM / VECTO_DT columns of dashboard(), then sort_values("VECTO_DT")
dash_movbank(raw) ==
    sort_values([i \in 1..Len(raw) |->
                    [idx      |-> i,
                     VALOR    |-> ValorOf(i),
                     STATUS   |-> raw[i].STATUS,
                     VECTO_DT |-> CellToSerialVecto(raw[i].VECTO)]],
                "VECTO_DT")

Filtros == {"A pagar", "Pago", "Hoje", "Semana", "Todos"}

\* slip: the offset of a Monday used on every day
dias_ate_sabado_monday(hoje_dt) == 2

\* dias_ate_sabado = (hoje_dt.weekday() - 5) % 7
dias_ate_sabado(hoje_dt) == (weekday(hoje_dt) - 5) % 7

\* dias_ate_sexta = (4 - hoje_dt.weekday()) % 7
dias_ate_sexta(hoje_dt) == (4 - weekday(hoje_dt)) % 7

\* sabado_anterior = hoje_dt - timedelta(days=dias_ate_sabado)
dash_sabado_anterior(hoje_dt) == hoje_dt - dias_ate_sabado(hoje_dt)

\* sexta_seguinte = hoje_dt + timedelta(days=dias_ate_sexta)
dash_sexta_seguinte(hoje_dt) == hoje_dt + dias_ate_sexta(hoje_dt)

\* the mask of the "Semana" filter
mask_semana(r, hoje_dt) ==
    /\ DateGe(r.VECTO_DT, dash_sabado_anterior(hoje_dt))
    /\ DateLe(r.VECTO_DT, dash_sexta_seguinte(hoje_dt))

\* the mask of the "Hoje" filter
mask_hoje(r, hoje_dt) == DateEq(r.VECTO_DT, hoje_dt)

\* df_f of the chosen filter, then sort_values("VECTO_DT")
df_f_of(movbank, filtro, hoje_dt) ==
    LET M(r) ==
            CASE filtro = "A pagar" -> r.STATUS \in {"PREVISTO", "ATRASADO", "AGENDADO"}
              [] filtro = "Pago"    -> r.STATUS = "PAGO"
              [] filtro = "Hoje"    -> mask_hoje(r, hoje_dt)
              [] filtro = "Semana"  -> mask_semana(r, hoje_dt)
              [] OTHER              -> TRUE
    IN  sort_values(SelectSeq(movbank, M), "VECTO_DT")

NoDash ==
    [ran |-> FALSE, raised |-> "none", vazio |-> FALSE, hoje |-> NaT,
     saldo_bancario |-> 0, saldo_src |-> NotCalled, table_src |-> NotCalled,
     movbank |-> <<>>, filtro |-> "Semana",
     sabado_anterior |-> NaT, sexta_seguinte |-> NaT,
     df_f |-> <<>>, total_filtrado |-> 0]

\* what dashboard() renders from the table and the cell load_all returned
dashboard_view(hoje, filtro, t, c) ==
    IF t.df = <<>>
    THEN [NoDash EXCEPT !.ran = TRUE, !.vazio = TRUE, !.hoje = hoje,
                        !.saldo_bancario = c.saldo, !.saldo_src = c.src,
                        !.table_src = t.src]
    ELSE
        LET movbank == dash_movbank(t.df)
            df_f    == df_f_of(movbank, filtro, hoje)
        IN  [ran |-> TRUE, raised |-> "none", vazio |-> FALSE, hoje |-> hoje,
             saldo_bancario |-> c.saldo, saldo_src |-> c.src, table_src |-> t.src,
             movbank |-> movbank, filtro |-> filtro,
             sabado_anterior |-> IF filtro = "Semana"
                                 THEN dash_sabado_anterior(hoje) ELSE NaT,
             sexta_seguinte  |-> IF filtro = "Semana"
                                 THEN dash_sexta_seguinte(hoje) ELSE NaT,
             df_f |-> df_f, total_filtrado |-> SumValor(df_f)]

(***************************************************************************)
(* The pie chart of one partner (the loop of "Participação Individual").   *)
(* A percentage is kept as the fraction num/den; a label shows it in       *)
(* hundredths of a percent.                                                *)
(***************************************************************************)
\* (a / b) * 100 of two floats: a division by 0.0 raises ZeroDivisionError
percent(a, b) ==
    IF b = 0 THEN [raised |-> "ZeroDivisionError", num |-> 0, den |-> 1]
    ELSE [raised |-> "none", num |-> 100 * a, den |-> b]

\* the literals 0 and 100 of the loop
const_percent(k) == [raised |-> "none", num |-> k, den |-> 1]

\* f"{p:.2f}": the nearest hundredth of a percent
fmt_2f(p) == (200 * p.num + p.den) \div (2 * p.den)

\* slip: the division is not guarded
perc_excedente_unguarded(subscrito, integralizado) ==
    percent(integralizado - subscrito, subscrito)

\* perc_excedente = (excedente / subscrito) * 100 if subscrito > 0 else 0
perc_excedente(subscrito, integralizado) ==
    IF subscrito > 0 THEN percent(integralizado - subscrito, subscrito)
    ELSE const_percent(0)

\* perc_integral = (integralizado / subscrito) * 100 if subscrito > 0 else 0
perc_integral(subscrito, integralizado) ==
    IF subscrito > 0 THEN percent(integralizado, subscrito) ELSE const_percent(0)

\* perc_faltante = 100 - perc_integral
perc_faltante(p) == [raised |-> p.raised, num |-> 100 * p.den - p.num, den |-> p.den]

\* the partner is skipped (continue), or the loop has not run
NoChart == [shown |-> FALSE, raised |-> "none", valores |-> <<>>, labels |-> <<>>]

\* one iteration of the loop: the values and the labels handed to px.pie
pie_chart(subscrito, integralizado) ==
    IF subscrito <= 0 /\ integralizado <= 0 THEN NoChart
    ELSE IF integralizado > subscrito
    THEN LET pe == perc_excedente(subscrito, integralizado) IN
         IF pe.raised # "none" THEN [NoChart EXCEPT !.raised = pe.raised]
         ELSE [shown |-> TRUE, raised |-> "none",
               valores |-> <<const_percent(100), pe>>,
               labels |-> <<[text |-> "Integralizado", pct |-> 10000],
                            [text |-> "Excedente", pct |-> fmt_2f(pe)]>>]
    ELSE LET pi == perc_integral(subscrito, integralizado)
             pf == perc_faltante(pi)
         IN  IF pi.raised # "none" THEN [NoChart EXCEPT !.raised = pi.raised]
             ELSE [shown |-> TRUE, raised |-> "none",
                   valores |-> <<pi, pf>>,
                   labels |-> <<[text |-> "Integralizado", pct |-> fmt_2f(pi)],
                                [text |-> "A Integralizar", pct |-> fmt_2f(pf)]>>]

(***************************************************************************)
(* Initial states and actions.                                             *)
(***************************************************************************)
FullConfig ==
    [SMTP_SERVER |-> TRUE, SMTP_USER |-> TRUE, SMTP_PASS |-> TRUE, TO_EMAILS |-> TRUE]

\* the login form before its first submit
NoTyped == <<"", "">>

\* no function is being called on its own
NoFn == [op |-> "none", applied |-> FALSE]

Init ==
    /\ proc \in {"mailer", "dashboard"}
    /\ clock \in FirstDay..(FirstDay + NumDays - 1)
    /\ ticks = 0
    /\ cfg \in (IF proc = "mailer" THEN Configs ELSE {FullConfig})
    /\ pc = IF proc = "mailer" THEN "main" ELSE "session"
    /\ hoje_main = NaT
    /\ daily = NoDaily
    /\ weekly = NoWeekly
    /\ sessions = 0
    /\ outbox = <<>>
    /\ error = "none"
    /\ auth = FALSE
    /\ login_msg = ""
    /\ fails = 0
    /\ typed = NoTyped
    /\ dash = NoDash
    /\ fn = NoFn

\* midnight passes while the mailer is between two reads of the clock
Tick ==
    /\ proc = "mailer"
    /\ pc \in {"daily", "weekly"}
    /\ ticks < MaxTicks
    /\ clock' = clock + 1
    /\ ticks' = ticks + 1
    /\ UNCHANGED <<proc, cfg, pc, hoje_main, daily, weekly, sessions, outbox,
                   error, auth, login_msg, fails, typed, dash, fn>>

\* __main__: agora = datetime.now(tz); hoje = agora.date()
MainStart ==
    /\ proc = "mailer"
    /\ pc = "main"
    /\ hoje_main' = clock
    /\ pc' = "daily"
    /\ UNCHANGED <<proc, clock, ticks, cfg, daily, weekly, sessions, outbox,
                   error, auth, login_msg, fails, typed, dash, fn>>

\* an exception leaves the run function and __main__: the process ends
Abort(e, opened) ==
    /\ pc' = "aborted"
    /\ error' = e
    /\ daily' = NoDaily
    /\ weekly' = NoWeekly
    /\ sessions' = sessions + opened
    /\ UNCHANGED outbox

\* __main__ after run_daily returns: if hoje.weekday() == 0: run_weekly()
main_after_daily(hoje) == IF weekday(hoje) = 0 THEN "weekly" ELSE "done"

\* run_daily has returned (its locals are gone) and __main__ tests the weekday
MainCheck ==
    /\ proc = "mailer"
    /\ pc = "daily_sent"
    /\ pc' = main_after_daily(hoje_main)
    /\ daily' = NoDaily
    /\ UNCHANGED <<proc, clock, ticks, cfg, hoje_main, weekly, sessions, outbox,
                   error, auth, login_msg, fails, typed, dash, fn>>

\* the responses a call may get; a call that is never made gets NotCalled
CellRespsAfter(tok) ==
    IF tok = "ok" THEN CellResps ELSE {[body |-> NotCalled, raw |-> NumSaldo(0)]}

ColsRespsAfter(tok) == IF tok = "ok" THEN ColsResps ELSE {NotCalled}

EmptyRowsResp == [body |-> "ok", values |-> <<>>]

\* the rows responses told apart by the code once the columns response is known
RowsRespsAfter(cols, ok) ==
    IF cols \in {"ok", "ok_nopgto"} THEN ok \cup RowsRespsBad
    ELSE IF cols = "error" THEN {EmptyRowsResp} \cup RowsRespsBad
    ELSE {EmptyRowsResp}

SmtpRespsFor(c) == IF smtp_config_ok(c) THEN {"ok", "fail"} ELSE {NotCalled}

\* run_daily(), from its read of the clock to its send_email
RunDaily ==
    /\ proc = "mailer"
    /\ pc = "daily"
    /\ \E tok1 \in TokenResps : \E cell \in CellRespsAfter(tok1) :
         LET s == read_saldo_atual(tok1, cell) IN
         IF s.raised # "none" THEN Abort(s.raised, 0)
         ELSE \E tok2 \in TokenResps : \E cols \in ColsRespsAfter(tok2) :
              \E rows \in RowsRespsAfter(cols, RowsRespsOk) :
                LET t == read_table(tok2, cols, rows) IN
                IF t.raised # "none" THEN Abort(t.raised, 0)
                ELSE \E smtp \in SmtpRespsFor(cfg) :
                       LET m == send_email(cfg, smtp) IN
                       IF m.raised # "none" THEN Abort(m.raised, m.opened)
                       ELSE /\ daily' = run_daily_locals(clock, s, t)
                            /\ weekly' = NoWeekly
                            /\ sessions' = sessions + m.opened
                            /\ outbox' = Append(outbox, [kind |-> "daily", hoje |-> clock])
                            /\ pc' = "daily_sent"
                            /\ UNCHANGED error
    /\ UNCHANGED <<proc, clock, ticks, cfg, hoje_main, auth, login_msg, fails,
                   typed, dash, fn>>

\* run_weekly(), from its read of the clock to its send_email
RunWeekly ==
    /\ proc = "mailer"
    /\ pc = "weekly"
    /\ \E tok1 \in TokenResps : \E cell \in CellRespsAfter(tok1) :
         LET s == read_saldo_atual(tok1, cell) IN
         IF s.raised # "none" THEN Abort(s.raised, 0)
         ELSE \E tok2 \in TokenResps : \E cols \in ColsRespsAfter(tok2) :
              \E rows \in RowsRespsAfter(cols, RowsRespsOk) :
                LET t == read_table(tok2, cols, rows) IN
                IF t.raised # "none" THEN Abort(t.raised, 0)
                ELSE \E smtp \in SmtpRespsFor(cfg) :
                       LET m == send_email(cfg, smtp) IN
                       IF m.raised # "none" THEN Abort(m.raised, m.opened)
                       ELSE /\ weekly' = run_weekly_locals(clock, s, t)
                            /\ daily' = NoDaily
                            /\ sessions' = sessions + m.opened
                            /\ outbox' = Append(outbox, [kind |-> "weekly", hoje |-> clock])
                            /\ pc' = "done"
                            /\ UNCHANGED error
    /\ UNCHANGED <<proc, clock, ticks, cfg, hoje_main, auth, login_msg, fails,
                   typed, dash, fn>>

\* slip: the password is not compared
credentials_ok_user_only(u, p) == u = APP_USER

\* the check of login(): u == APP_USER and p == APP_PASS
credentials_ok(u, p) == u = APP_USER /\ p = APP_PASS

\* login(): the visitor presses "Entrar" with u and p in the two fields
LoginSubmitWith(u, p) ==
    /\ proc = "dashboard"
    /\ ~auth
    /\ IF credentials_ok(u, p)
       THEN /\ auth' = TRUE
            /\ login_msg' = ""
            /\ UNCHANGED fails
       ELSE /\ fails < MaxFails
            /\ fails' = fails + 1
            /\ login_msg' = "Credenciais invalidas."
            /\ UNCHANGED auth
    /\ typed' = <<u, p>>
    /\ UNCHANGED <<proc, clock, ticks, cfg, pc, hoje_main, daily, weekly,
                   sessions, outbox, error, dash, fn>>

LoginSubmit == \E u \in TypedUsers, p \in TypedPasses : LoginSubmitWith(u, p)

\* the reads of load_all(), in order
LoadAllReads == <<"SOCIOS", "movbank", "fornece", "B7">>

\* one run of dashboard(): load_all(), date.today(), the chosen filter.
\* bad is the first read of load_all whose token request is refused (0: none).
DashboardRender ==
    /\ proc = "dashboard"
    /\ auth
    /\ ~dash.ran
    /\ \E bad \in 0..Len(LoadAllReads) :
         IF bad # 0
         THEN dash' = [NoDash EXCEPT !.ran = TRUE, !.raised = get_graph_token("non2xx")]
         ELSE \E cols \in ColsResps \ {"ok_nopgto"} :
              \E rows \in RowsRespsAfter(cols, DashRowsRespsOk) :
              \E cell \in CellResps, filtro \in Filtros :
                LET t == app_read_table("ok", cols, rows)
                    c == read_cell("ok", cell)
                IN  dash' = IF c.raised # "none"
                            THEN [NoDash EXCEPT !.ran = TRUE, !.raised = c.raised]
                            ELSE dashboard_view(clock, filtro, t, c)
    /\ UNCHANGED <<proc, clock, ticks, cfg, pc, hoje_main, daily, weekly,
                   sessions, outbox, error, auth, login_msg, fails, typed, fn>>

\* an interaction of the visitor makes Streamlit run the script again
ScriptRerun ==
    /\ proc = "dashboard"
    /\ auth
    /\ dash.ran
    /\ dash' = NoDash
    /\ UNCHANGED <<proc, clock, ticks, cfg, pc, hoje_main, daily, weekly,
                   sessions, outbox, error, auth, login_msg, fails, typed, fn>>

Next ==
    \/ Tick
    \/ MainStart
    \/ RunDaily
    \/ MainCheck
    \/ RunWeekly
    \/ LoginSubmit
    \/ DashboardRender
    \/ ScriptRerun

Spec == Init /\ [][Next]_vars

(***************************************************************************)
(* Functions called on their own: the argument is drawn in the initial     *)
(* state, one step applies the function.                                   *)
(***************************************************************************)
\* the variables of the two processes while a function is called on its own
Standalone(op) ==
    /\ proc = op
    /\ clock = FirstDay
    /\ ticks = 0
    /\ cfg = FullConfig
    /\ pc = "call"
    /\ hoje_main = NaT
    /\ daily = NoDaily
    /\ weekly = NoWeekly
    /\ sessions = 0
    /\ outbox = <<>>
    /\ error = "none"
    /\ auth = FALSE
    /\ login_msg = ""
    /\ fails = 0
    /\ typed = NoTyped
    /\ dash = NoDash

\* the characters of the texts src!B7 may hold
SaldoChars == {"R", "$", " ", "1", "5", ",", ".", "-"}

\* every text of at most MaxText characters
SaldoTexts == UNION {[1..n -> SaldoChars] : n \in 0..MaxText}

\* "R$ 1.234,56", "1234,56", "1,234.56" and "n/d"
SaldoExamples ==
    { <<"R", "$", " ", "1", ".", "2", "3", "4", ",", "5", "6">>,
      <<"1", "2", "3", "4", ",", "5", "6">>,
      <<"1", ",", "2", "3", "4", ".", "5", "6">>,
      <<"n", "/", "d">> }

\* the raw values of src!B7: numbers and texts
SaldoInputs ==
    {NumSaldo(v) : v \in (0 - SaldoNum)..SaldoNum}
    \cup {TxtSaldo(t) : t \in SaldoTexts \cup SaldoExamples}

InitSaldo ==
    /\ Standalone("parse_saldo")
    /\ fn \in {[op |-> "parse_saldo", applied |-> FALSE, arg |-> c, out |-> 0] :
                  c \in SaldoInputs}

\* the conversion block of read_saldo_atual / read_cell runs on the raw value
CallParseSaldo ==
    /\ proc = "parse_saldo"
    /\ ~fn.applied
    /\ fn' = [fn EXCEPT !.applied = TRUE, !.out = parse_saldo(fn.arg)]
    /\ UNCHANGED <<proc, clock, ticks, cfg, pc, hoje_main, daily, weekly, sessions,
                   outbox, error, auth, login_msg, fails, typed, dash>>

NextSaldo == CallParseSaldo

SpecSaldo == InitSaldo /\ [][NextSaldo]_vars

\* pd.NaT in a column of calendar dates <<y, m, d>>
NaTDate == <<>>

\* the years of the text date cells
DateYears == {1900, 1999, 2000, 2023, 2024, 2100}

\* the raw VECTO / DATA DE PGTO cells: serials, texts "d/m/y" (with days and
\* months that no calendar has), a cell that is neither
DateInputs ==
    {NumCell(n) : n \in (0..MaxSerial) \cup (FirstDay..(FirstDay + NumDays - 1))}
    \cup {TxtCell(d, m, y) : d \in 0..32, m \in 0..13, y \in DateYears}
    \cup {BadCell}

InitDates ==
    /\ Standalone("normalize_date")
    /\ fn \in {[op |-> "normalize_date", applied |-> FALSE, arg |-> c,
                 out |-> [VECTO_NUM |-> NaT, VECTO_DT |-> NaTDate]] : c \in DateInputs}

\* the VECTO_NUM and VECTO_DT columns of load_movbank / dashboard for one cell
CallNormalizeDate ==
    /\ proc = "normalize_date"
    /\ ~fn.applied
    /\ LET num == CellToSerialVecto(fn.arg) IN
       fn' = [fn EXCEPT !.applied = TRUE,
                        !.out = [VECTO_NUM |-> num,
                                 VECTO_DT  |-> IF num = NaT THEN NaTDate
                                               ELSE serial_to_date(num)]]
    /\ UNCHANGED <<proc, clock, ticks, cfg, pc, hoje_main, daily, weekly, sessions,
                   outbox, error, auth, login_msg, fails, typed, dash>>

NextDates == CallNormalizeDate

SpecDates == InitDates /\ [][NextDates]_vars

\* VALOR SUBSCRITO and VALOR INTEGRALIZADO of a partner row
SubscritoVals == ((0 - 1)..MaxCota) \cup {1000}
IntegralizadoVals == ((0 - 1)..MaxCota) \cup {800, 1200}

InitPie ==
    /\ Standalone("pie_chart")
    /\ fn \in {[op |-> "pie_chart", applied |-> FALSE,
                 arg |-> [subscrito |-> a, integralizado |-> b], out |-> NoChart] :
                  a \in SubscritoVals, b \in IntegralizadoVals}

\* one iteration of the loop over the partners
CallPieChart ==
    /\ proc = "pie_chart"
    /\ ~fn.applied
    /\ fn' = [fn EXCEPT !.applied = TRUE,
                        !.out = pie_chart(fn.arg.subscrito, fn.arg.integralizado)]
    /\ UNCHANGED <<proc, clock, ticks, cfg, pc, hoje_main, daily, weekly, sessions,
                   outbox, error, auth, login_msg, fails, typed, dash>>

NextPie == CallPieChart

SpecPie == InitPie /\ [][NextPie]_vars

(***************************************************************************)
(* Vocabulary of the properties.                                           *)
(***************************************************************************)
\* the index labels of the rows of a bucket
IdxSet(b) == {b[k].idx : k \in 1..Len(b)}

\* a bucket holds no row twice
NoDup(b) == Cardinality(IdxSet(b)) = Len(b)

\* the reference date of a normalized row: payment date if present, else due date
RefDate(r) == IF r.PGTO_DT # NaT THEN r.PGTO_DT ELSE r.VECTO_DT

RECURSIVE SumOfRows(_, _)
\* the sum of the amounts of the rows of df whose index is in S
SumOfRows(df, S) ==
    IF S = {} THEN 0
    ELSE LET i == CHOOSE j \in S : TRUE
         IN  df[i].VALOR + SumOfRows(df, S \ {i})

\* the most recent Saturday on or before day h
SaturdayOnOrBefore(h) == CHOOSE d \in (h - 6)..h : weekday(d) = 5

\* the first Friday on or after day h
FridayOnOrAfter(h) == CHOOSE d \in h..(h + 6) : weekday(d) = 4

\* run_daily reached its send_email with a table that has rows
DailyBuckets == daily.ran /\ ~daily.vazio

\* the rows of the loaded table whose reference date is today
TodayRows == {i \in 1..Len(daily.df) : RefDate(daily.df[i]) = daily.hoje}

\* the rows of the loaded table due before today and without payment date
OverdueRows ==
    {i \in 1..Len(daily.df) :
        /\ daily.df[i].VECTO_DT # NaT
        /\ daily.df[i].VECTO_DT < daily.hoje
        /\ daily.df[i].PGTO_DT = NaT}

(***************************************************************************)
(* C1: in run_daily the Today bucket is exactly the rows whose reference   *)
(* date (payment date if present, otherwise due date) equals today; a row  *)
(* of the bucket whose status was PAGO is shown as AGENDADO and every      *)
(* other status is shown unchanged.                                        *)
(***************************************************************************)
C1_TodayBucket ==
    DailyBuckets =>
        /\ IdxSet(daily.df_hoje) = TodayRows
        /\ NoDup(daily.df_hoje)
        /\ \A k \in 1..Len(daily.df_hoje) :
             LET shown == daily.df_hoje[k]
                 orig  == daily.df[shown.idx]
             IN  shown.STATUS = IF orig.STATUS = "PAGO" THEN "AGENDADO"
                                ELSE orig.STATUS

\* a PAGO row paid today is shown as AGENDADO next to a row of another status,
\* while a third kind of row stays out of the bucket
C1_Witness ==
    /\ DailyBuckets
    /\ \E k \in 1..Len(daily.df_hoje) :
         /\ daily.df[daily.df_hoje[k].idx].STATUS = "PAGO"
         /\ daily.df[daily.df_hoje[k].idx].PGTO_DT = daily.hoje
         /\ daily.df_hoje[k].STATUS = "AGENDADO"
    /\ \E k \in 1..Len(daily.df_hoje) : daily.df_hoje[k].STATUS = "PREVISTO"

(***************************************************************************)
(* C2: in run_daily the Overdue bucket is exactly the rows whose due date  *)
(* is strictly before today and whose payment date is absent.              *)
(***************************************************************************)
C2_OverdueBucket ==
    DailyBuckets =>
        /\ IdxSet(daily.df_atraso) = OverdueRows
        /\ NoDup(daily.df_atraso)

\* of two rows due before today, the one without payment date is overdue and
\* the one with a payment date is not
C2_Witness ==
    /\ DailyBuckets
    /\ \E i, j \in 1..Len(daily.df) :
         /\ daily.df[i].VECTO_DT # NaT /\ daily.df[i].VECTO_DT < daily.hoje
         /\ daily.df[j].VECTO_DT # NaT /\ daily.df[j].VECTO_DT < daily.hoje
         /\ daily.df[i].PGTO_DT = NaT
         /\ daily.df[j].PGTO_DT # NaT
         /\ i \in IdxSet(daily.df_atraso)
         /\ j \notin IdxSet(daily.df_atraso)

(***************************************************************************)
(* C3: in run_weekly, on any day of the week, the Period bucket is exactly *)
(* the rows whose status is not PAGO and whose reference date lies in the  *)
(* window from the most recent Saturday on or before today to the Friday   *)
(* six days later, both boundaries included.                               *)
(***************************************************************************)
C3_PeriodBucket ==
    (weekly.ran /\ ~weekly.vazio) =>
        /\ weekly.sabado_anterior = SaturdayOnOrBefore(weekly.hoje)
        /\ weekly.sexta_seguinte = SaturdayOnOrBefore(weekly.hoje) + 6
        /\ IdxSet(weekly.alvo) =
             {i \in 1..Len(weekly.df) :
                /\ weekly.df[i].STATUS # "PAGO"
                /\ RefDate(weekly.df[i]) # NaT
                /\ RefDate(weekly.df[i]) >= SaturdayOnOrBefore(weekly.hoje)
                /\ RefDate(weekly.df[i]) <= SaturdayOnOrBefore(weekly.hoje) + 6}

(***************************************************************************)
(* C4: in the dashboard's "Semana" filter, on every weekday, the window    *)
(* starts on the most recent Saturday on or before today, ends on the      *)
(* first Friday on or after today, spans exactly seven days, contains      *)
(* today, and selects exactly the rows whose due date lies in the window,  *)
(* both boundaries included.                                               *)
(***************************************************************************)
SemanaRendered == dash.ran /\ dash.raised = "none" /\ ~dash.vazio /\ dash.filtro = "Semana"

C4_SemanaWindow ==
    SemanaRendered =>
        /\ dash.sabado_anterior = SaturdayOnOrBefore(dash.hoje)
        /\ dash.sexta_seguinte = FridayOnOrAfter(dash.hoje)
        /\ dash.sexta_seguinte - dash.sabado_anterior + 1 = 7
        /\ dash.sabado_anterior <= dash.hoje /\ dash.hoje <= dash.sexta_seguinte
        /\ NoDup(dash.df_f)
        /\ IdxSet(dash.df_f) =
             {dash.movbank[k].idx : k \in
                {j \in 1..Len(dash.movbank) :
                    /\ dash.movbank[j].VECTO_DT # NaT
                    /\ dash.movbank[j].VECTO_DT >= SaturdayOnOrBefore(dash.hoje)
                    /\ dash.movbank[j].VECTO_DT <= FridayOnOrAfter(dash.hoje)}}

\* on a Wednesday, a row due on the closing Friday is selected and a row due
\* on the Saturday after it is not
C4_Witness ==
    /\ SemanaRendered
    /\ weekday(dash.hoje) = 2
    /\ \E k \in 1..Len(dash.df_f) : dash.df_f[k].VECTO_DT = dash.sexta_seguinte
    /\ \E k \in 1..Len(dash.movbank) :
         dash.movbank[k].VECTO_DT = dash.sexta_seguinte + 1

(***************************************************************************)
(* C5: in run_daily the balance shown in the digest is the balance read    *)
(* from the sheet plus the amounts of the Today rows whose original status *)
(* is PAGO, and the projected balance after today is that adjusted balance *)
(* minus the amounts of all Today rows.                                    *)
(***************************************************************************)
C5_BalanceAdjustment ==
    daily.ran =>
        LET paid_today == {i \in TodayRows : daily.df[i].STATUS = "PAGO"}
            adjusted   == daily.saldo_atual + SumOfRows(daily.df, paid_today)
        IN  /\ daily.resumo.saldo_atual = adjusted
            /\ daily.resumo.total_hoje = SumOfRows(daily.df, TodayRows)
            /\ daily.resumo.saldo_pos_dia = adjusted - SumOfRows(daily.df, TodayRows)

\* a balance was read, and today holds a paid row and a row still to pay
C5_Witness ==
    /\ DailyBuckets
    /\ daily.saldo_atual > 0
    /\ daily.total_pago_dia > 0
    /\ daily.total_hoje > daily.total_pago_dia
    /\ daily.resumo.saldo_atual > daily.saldo_atual

(***************************************************************************)
(* C6 as stated: a row whose due date is unknown is in no date-range       *)
(* bucket (Today, Overdue, This week, Period), whatever its payment date   *)
(* and status.                                                             *)
(***************************************************************************)
UnknownDue(b) == {k \in 1..Len(b) : b[k].VECTO_DT = NaT}

C6_UnknownDueInNoBucket ==
    /\ UnknownDue(daily.df_hoje) = {}
    /\ UnknownDue(daily.df_atraso) = {}
    /\ UnknownDue(weekly.alvo) = {}
    /\ dash.filtro \in {"Semana", "Hoje"} => UnknownDue(dash.df_f) = {}

(***************************************************************************)
(* C6 amended: a row whose due date is unknown is never in Overdue, This   *)
(* week or the dashboard's Hoje; it is in Today or Period only through a   *)
(* payment date (its reference date), so a row with neither date is in no  *)
(* bucket, and every bucket total is the sum over the rows of the bucket.  *)
(***************************************************************************)
C6_UnknownDueOnlyByPayment ==
    /\ UnknownDue(daily.df_atraso) = {}
    /\ dash.filtro \in {"Semana", "Hoje"} => UnknownDue(dash.df_f) = {}
    /\ \A k \in UnknownDue(daily.df_hoje) : daily.df_hoje[k].PGTO_DT = daily.hoje
    /\ \A k \in UnknownDue(weekly.alvo) :
         /\ weekly.alvo[k].PGTO_DT # NaT
         /\ weekly.alvo[k].PGTO_DT >= weekly.sabado_anterior
         /\ weekly.alvo[k].PGTO_DT <= weekly.sexta_seguinte
    /\ daily.total_hoje = SumOfRows(daily.df, IdxSet(daily.df_hoje))
    /\ daily.total_atraso = SumOfRows(daily.df, IdxSet(daily.df_atraso))
    /\ weekly.total_periodo = SumOfRows(weekly.df, IdxSet(weekly.alvo))

\* a row with neither date is left out of both daily buckets while a row with
\* an unknown due date and a payment date of today is in Today
C6_Witness ==
    /\ DailyBuckets
    /\ \E i \in 1..Len(daily.df) :
         /\ daily.df[i].VECTO_DT = NaT /\ daily.df[i].PGTO_DT = NaT
         /\ i \notin IdxSet(daily.df_hoje) \cup IdxSet(daily.df_atraso)
    /\ \E k \in UnknownDue(daily.df_hoje) : daily.df_hoje[k].PGTO_DT = daily.hoje

(***************************************************************************)
(* C7 as stated: no row whose status is PAGO is placed in the Overdue      *)
(* bucket of run_daily or counted in the overdue total.                    *)
(***************************************************************************)
C7_NoPagoInOverdue ==
    DailyBuckets =>
        /\ \A k \in 1..Len(daily.df_atraso) : daily.df_atraso[k].STATUS # "PAGO"
        /\ daily.total_atraso =
             SumOfRows(daily.df, {i \in OverdueRows : daily.df[i].STATUS # "PAGO"})

(***************************************************************************)
(* C7 amended: every row in the Overdue bucket of run_daily has no payment *)
(* date; the status is not consulted, so a PAGO row due before today with  *)
(* no payment date is in Overdue and counted in the overdue total.         *)
(***************************************************************************)
C7_OverdueHasNoPaymentDate ==
    DailyBuckets =>
        /\ \A k \in 1..Len(daily.df_atraso) : daily.df_atraso[k].PGTO_DT = NaT
        /\ \A i \in OverdueRows :
             daily.df[i].STATUS = "PAGO" => i \in IdxSet(daily.df_atraso)
        /\ daily.total_atraso = SumOfRows(daily.df, OverdueRows)
        /\ daily.resumo.com_atraso = (OverdueRows # {})

\* the Overdue bucket holds a PAGO row and its amount is in the overdue total
C7_Witness ==
    /\ DailyBuckets
    /\ \E k \in 1..Len(daily.df_atraso) :
         /\ daily.df_atraso[k].STATUS = "PAGO"
         /\ daily.total_atraso >= daily.df_atraso[k].VALOR
    /\ \E k \in 1..Len(daily.df_atraso) : daily.df_atraso[k].STATUS # "PAGO"

(***************************************************************************)
(* C8 as stated: no row is in both Today and Overdue, and a row with due   *)
(* date today and status PAGO is in Today (shown as AGENDADO) and not in   *)
(* Overdue.                                                                *)
(***************************************************************************)
Disjoint == IdxSet(daily.df_hoje) \cap IdxSet(daily.df_atraso) = {}

ShownAgendado(i) ==
    \E k \in 1..Len(daily.df_hoje) :
        daily.df_hoje[k].idx = i /\ daily.df_hoje[k].STATUS = "AGENDADO"

C8_TodayOverdueDisjoint ==
    DailyBuckets =>
        /\ Disjoint
        /\ \A i \in 1..Len(daily.df) :
             (daily.df[i].VECTO_DT = daily.hoje /\ daily.df[i].STATUS = "PAGO")
                => (ShownAgendado(i) /\ i \notin IdxSet(daily.df_atraso))

(***************************************************************************)
(* C8 amended: no row is in both Today and Overdue; a row with due date    *)
(* today and status PAGO whose payment date is absent or today is in Today *)
(* (shown as AGENDADO) and not in Overdue; with a payment date on another  *)
(* day it is in neither bucket.                                            *)
(***************************************************************************)
C8_DisjointByReferenceDate ==
    DailyBuckets =>
        /\ Disjoint
        /\ \A i \in 1..Len(daily.df) :
             (daily.df[i].VECTO_DT = daily.hoje /\ daily.df[i].STATUS = "PAGO")
                => IF daily.df[i].PGTO_DT \in {NaT, daily.hoje}
                   THEN ShownAgendado(i) /\ i \notin IdxSet(daily.df_atraso)
                   ELSE i \notin IdxSet(daily.df_hoje) \cup IdxSet(daily.df_atraso)

\* one PAGO row due today without payment date is in Today as AGENDADO, next
\* to an overdue row
C8_Witness ==
    /\ DailyBuckets
    /\ \E i \in 1..Len(daily.df) :
         /\ daily.df[i].VECTO_DT = daily.hoje
         /\ daily.df[i].STATUS = "PAGO"
         /\ daily.df[i].PGTO_DT = NaT
         /\ ShownAgendado(i)
    /\ daily.df_atraso # <<>>

(***************************************************************************)
(* C9: for every table read and every cell read, in the dashboard and in   *)
(* the mailer, a network/API error (a non-2xx response, a body that is not *)
(* JSON, a JSON body with an error key) yields an empty table or a 0.0     *)
(* balance and the report continues: the error never aborts the report.    *)
(***************************************************************************)
NetworkErrors == {"HTTPError", "JSONDecodeError"}

C9_NetworkErrorsDegrade ==
    /\ error \notin NetworkErrors
    /\ dash.raised \notin NetworkErrors
    /\ daily.table_src \in {"error", "notjson"} => daily.ran /\ daily.df = <<>>
    /\ daily.saldo_src \in {"error", "notjson"} => daily.ran /\ daily.saldo_atual = 0
    /\ weekly.table_src \in {"error", "notjson"} => weekly.ran /\ weekly.df = <<>>
    /\ weekly.saldo_src \in {"error", "notjson"} => weekly.ran /\ weekly.saldo_atual = 0
    /\ dash.table_src \in {"error", "notjson"} => dash.ran /\ dash.movbank = <<>>
    /\ dash.saldo_src \in {"error", "notjson"} => dash.ran /\ dash.saldo_bancario = 0

(***************************************************************************)
(* C10: when a required SMTP setting (server, user, password, recipient    *)
(* list) is missing, a mailer run raises before any SMTP session is opened *)
(* and ends with no email sent: neither digest is dispatched.              *)
(***************************************************************************)
SettingMissing ==
    ~cfg.SMTP_SERVER \/ ~cfg.SMTP_USER \/ ~cfg.SMTP_PASS \/ ~cfg.TO_EMAILS

C10_MissingConfigSendsNothing ==
    (proc = "mailer" /\ SettingMissing) =>
        /\ sessions = 0
        /\ outbox = <<>>
        /\ pc \in {"main", "daily", "aborted"}
        /\ pc = "aborted" => error # "none"
        /\ ~daily.ran /\ ~weekly.ran

\* with only the recipient list missing, the run ended in send_email's error
C10_Witness ==
    /\ proc = "mailer"
    /\ cfg.SMTP_SERVER /\ cfg.SMTP_USER /\ cfg.SMTP_PASS /\ ~cfg.TO_EMAILS
    /\ pc = "aborted"
    /\ error = "RuntimeError"
    /\ sessions = 0
    /\ outbox = <<>>

(***************************************************************************)
(* C11: each call of run_daily and of run_weekly makes exactly one         *)
(* dispatch attempt over one SMTP session on every path (empty table or    *)
(* not), never retries, and an SMTP failure propagates uncaught.  Read of  *)
(* every call that reached its send_email: the calls that returned are the *)
(* messages of the outbox, and a run that ended in an exception other than *)
(* a network error ended in the dispatch of one more call.                 *)
(***************************************************************************)
\* the kinds of the messages dispatched so far, in order
OutboxKinds == [i \in 1..Len(outbox) |-> outbox[i].kind]

\* the calls of run_daily / run_weekly that reached send_email
DispatchCalls ==
    Len(outbox) + (IF pc = "aborted" /\ error \notin NetworkErrors THEN 1 ELSE 0)

C11_OneSessionOnEveryPath ==
    proc = "mailer" =>
        /\ sessions = DispatchCalls
        /\ error # "none" => pc = "aborted"

(***************************************************************************)
(* C11 amended: each call of run_daily and of run_weekly opens at most one *)
(* SMTP session and never retries.  A call that returns (empty table or    *)
(* not) has opened exactly one session and handed over exactly one         *)
(* message; a call whose SMTP session fails has opened exactly one session *)
(* and handed over nothing; a call that ends in any other exception        *)
(* (missing setting, network error) has opened none.  Every exception ends *)
(* the run: nothing is dispatched after it.                                *)
(***************************************************************************)
C11_AtMostOneSessionPerCall ==
    proc = "mailer" =>
        /\ sessions = Len(outbox) + (IF error = "SMTPException" THEN 1 ELSE 0)
        /\ pc \in {"main", "daily"} => OutboxKinds = <<>>
        /\ pc \in {"daily_sent", "weekly"} => OutboxKinds = <<"daily">>
        /\ pc = "daily_sent" => daily.ran
        /\ pc = "done" => OutboxKinds = (IF weekly.ran THEN <<"daily", "weekly">>
                                         ELSE <<"daily">>)
        /\ pc = "aborted" => error # "none" /\ OutboxKinds \in {<<>>, <<"daily">>}
        /\ error # "none" => pc = "aborted"

\* the daily digest went out over one session, then the session of the weekly
\* digest failed and the exception ended the run
C11_Witness ==
    /\ proc = "mailer"
    /\ pc = "aborted"
    /\ error = "SMTPException"
    /\ sessions = 2
    /\ OutboxKinds = <<"daily">>

(***************************************************************************)
(* C12: the currency normalizer maps a numeric value to itself; for a      *)
(* text, after removing 'R$' and spaces, if both ',' and '.' appear the    *)
(* first separator is taken as thousands and the second as decimal, if     *)
(* only ',' appears it is the decimal separator; 'R$ 1.234,56' and         *)
(* '1234,56' give 1234.56; a text that does not parse gives 0.0.           *)
(***************************************************************************)
\* the text of a balance cell once 'R$' and spaces are removed
Stripped(raw) == RemoveChar(RemoveRS(raw.s), " ")

RECURSIVE NumVal(_)
\* the number a run of digits writes
NumVal(s) ==
    IF s = <<>> THEN 0
    ELSE 10 * NumVal(SubSeq(s, 1, Len(s) - 1)) + DigitVal(s[Len(s)])

\* the amount in cents a text writes when thou is its thousands separator and
\* dec its decimal separator; 0 when it writes no number that way
Reading(t, thou, dec) ==
    LET Kept(ch) == ch # thou
        body    == SelectSeq(t, Kept)
        neg     == body # <<>> /\ body[1] = "-"
        kept    == IF neg THEN Tail(body) ELSE body
        decs    == {i \in 1..Len(kept) : kept[i] = dec}
        IsNum(ch) == IsDigit(ch)
        digs    == SelectSeq(kept, IsNum)
        at      == IF decs = {} THEN Len(kept) + 1 ELSE CHOOSE i \in decs : TRUE
        whole   == SubSeq(kept, 1, at - 1)
        frac    == SubSeq(kept, at + 1, Len(kept))
        cents   == SubSeq(frac \o <<"0", "0">>, 1, 2)
        written == /\ Cardinality(decs) <= 1
                   /\ Len(digs) = Len(kept) - Cardinality(decs)
                   /\ Len(digs) > 0
        mag     == 100 * NumVal(whole) + NumVal(cents)
    IN  IF ~written THEN 0 ELSE IF neg THEN 0 - mag ELSE mag

\* the separator that comes first in a text that has one
FirstSep(t) == t[CHOOSE i \in 1..Len(t) :
                    /\ t[i] \in {",", "."}
                    /\ \A j \in 1..(i - 1) : t[j] \notin {",", "."}]

OtherSep(ch) == IF ch = "," THEN "." ELSE ","

\* the examples of the claim
C12_Examples ==
    /\ fn.arg = TxtSaldo(<<"R", "$", " ", "1", ".", "2", "3", "4", ",", "5", "6">>)
          => fn.out = 123456
    /\ fn.arg = TxtSaldo(<<"1", "2", "3", "4", ",", "5", "6">>) => fn.out = 123456
    /\ fn.arg = TxtSaldo(<<"n", "/", "d">>) => fn.out = 0

C12_FirstSeparatorIsThousands ==
    (proc = "parse_saldo" /\ fn.applied) =>
        LET t == Stripped(fn.arg) IN
        /\ C12_Examples
        /\ IF fn.arg.k = "num" THEN fn.out = fn.arg.v
           ELSE IF HasChar(t, ",") /\ HasChar(t, ".")
                THEN fn.out = Reading(t, FirstSep(t), OtherSep(FirstSep(t)))
           ELSE IF HasChar(t, ",") THEN fn.out = Reading(t, "", ",")
           ELSE fn.out = Reading(t, "", ".")

(***************************************************************************)
(* C12 amended: as C12, but when both ',' and '.' appear every '.' is      *)
(* taken as a thousands separator (removed) and ',' as the decimal         *)
(* separator, whatever their order in the text.                            *)
(***************************************************************************)
C12_DotThousandsCommaDecimal ==
    (proc = "parse_saldo" /\ fn.applied) =>
        LET t == Stripped(fn.arg) IN
        /\ C12_Examples
        /\ IF fn.arg.k = "num" THEN fn.out = fn.arg.v
           ELSE IF HasChar(t, ",") /\ HasChar(t, ".")
                THEN fn.out = Reading(t, ".", ",")
           ELSE IF HasChar(t, ",") THEN fn.out = Reading(t, "", ",")
           ELSE fn.out = Reading(t, "", ".")

\* "1,234.56" has been converted: ',' before '.', and the result is 1.23
C12_Witness ==
    /\ proc = "parse_saldo"
    /\ fn.applied
    /\ fn.arg = TxtSaldo(<<"1", ",", "2", "3", "4", ".", "5", "6">>)
    /\ fn.out = 123

(***************************************************************************)
(* C13: the date normalizer maps a numeric cell n to the calendar date n   *)
(* days after 1899-12-30; a non-numeric cell that parses as a day-first    *)
(* text date d to the serial (d - 1899-12-30) and back to the same date d; *)
(* a cell for which both parses fail to the unknown-date sentinel; and for *)
(* every date d in range serial_to_date(date_to_serial(d)) = d.            *)
(***************************************************************************)
RECURSIVE DaysBeforeMonth(_, _)
\* the days of year y that come before its month m
DaysBeforeMonth(y, m) ==
    IF m <= 1 THEN 0 ELSE DaysBeforeMonth(y, m - 1) + DaysInMonth(y, m - 1)

\* the days from 1899-12-30 to y-m-d, counted on the calendar: the two days
\* to 1900-01-01, the whole years, the whole months, the days of the month
DaysFromEpoch(y, m, d) ==
    IF y = 1899 THEN d - 30
    ELSE 2 + 365 * (y - 1900) + Cardinality({k \in 1900..(y - 1) : IsLeap(k)})
           + DaysBeforeMonth(y, m) + (d - 1)

\* dt is a date of the calendar and comes n days after 1899-12-30
IsDaysAfterEpoch(dt, n) ==
    /\ dt # NaTDate
    /\ dt[2] \in 1..12
    /\ dt[3] >= 1 /\ dt[3] <= DaysInMonth(dt[1], dt[2])
    /\ dt[1] > 1899 \/ (dt[1] = 1899 /\ dt[2] = 12 /\ dt[3] >= 30)
    /\ DaysFromEpoch(dt[1], dt[2], dt[3]) = n

\* a text cell writes a date of the calendar, day first
IsCalendarDate(cell) ==
    cell.k = "txt" /\ cell.b \in 1..12 /\ cell.a >= 1 /\ cell.a <= DaysInMonth(cell.c, cell.b)

C13_DateNormalizer ==
    (proc = "normalize_date" /\ fn.applied) =>
        LET cell == fn.arg
            out  == fn.out
        IN  /\ cell.k = "num" =>
                  /\ out.VECTO_NUM = cell.a
                  /\ IsDaysAfterEpoch(out.VECTO_DT, cell.a)
            /\ IsCalendarDate(cell) =>
                  /\ out.VECTO_NUM >= 0
                  /\ out.VECTO_NUM = DaysFromEpoch(cell.c, cell.b, cell.a)
                  /\ out.VECTO_DT = <<cell.c, cell.b, cell.a>>
                  /\ serial_to_date(date_to_serial(cell.c, cell.b, cell.a))
                        = <<cell.c, cell.b, cell.a>>
            /\ (cell.k # "num" /\ ~IsCalendarDate(cell)) =>
                  /\ out.VECTO_NUM = NaT
                  /\ out.VECTO_DT = NaTDate

\* the text 29/02/2024 went to the serial 45351 and back to 29 February 2024
C13_Witness ==
    /\ proc = "normalize_date"
    /\ fn.applied
    /\ fn.arg = TxtCell(29, 2, 2024)
    /\ fn.out.VECTO_NUM = 45351
    /\ fn.out.VECTO_DT = <<2024, 2, 29>>

(***************************************************************************)
(* C14: in a dashboard session the auth flag starts false and becomes true *)
(* only by a login submit whose user and password both equal the           *)
(* configured credentials; the dashboard (and any data fetch) is rendered  *)
(* only while the flag is true; a failed submit leaves the flag false and  *)
(* shows the inline error; after any number of failed submits a submit     *)
(* with the correct credentials still succeeds (no lockout).               *)
(***************************************************************************)
C14_AuthOnlyByValidLogin ==
    proc = "dashboard" =>
        /\ typed = NoTyped => ~auth
        /\ auth => typed = <<APP_USER, APP_PASS>>
        /\ dash.ran => auth
        /\ (~auth /\ typed # NoTyped) =>
              /\ typed # <<APP_USER, APP_PASS>>
              /\ fails > 0
              /\ login_msg = "Credenciais invalidas."
        /\ ~auth => ENABLED (LoginSubmitWith(APP_USER, APP_PASS) /\ auth')

\* after MaxFails failed submits the correct credentials were accepted and the
\* dashboard was rendered
C14_Witness ==
    /\ proc = "dashboard"
    /\ fails = MaxFails
    /\ auth
    /\ dash.ran

(***************************************************************************)
(* C15: relabelling PAGO rows as AGENDADO changes only the local copy that *)
(* is the Today bucket: the statuses of the loaded table and of the        *)
(* Overdue bucket are unchanged, and the total of same-day paid items is   *)
(* computed from the original PAGO statuses.                               *)
(***************************************************************************)
\* the rows of the loaded table in the Today bucket that the sheet marks PAGO
PaidToday == {i \in IdxSet(daily.df_hoje) : daily.raw_status[i] = "PAGO"}

C15_RelabelOnlyLocalCopy ==
    DailyBuckets =>
        /\ Len(daily.df) = Len(daily.raw_status)
        /\ \A i \in 1..Len(daily.df) : daily.df[i].STATUS = daily.raw_status[i]
        /\ \A k \in 1..Len(daily.df_atraso) :
             daily.df_atraso[k].STATUS = daily.raw_status[daily.df_atraso[k].idx]
        /\ \A k \in 1..Len(daily.df_hoje) :
             daily.df_hoje[k].STATUS =
                 (IF daily.raw_status[daily.df_hoje[k].idx] = "PAGO" THEN "AGENDADO"
                  ELSE daily.raw_status[daily.df_hoje[k].idx])
        /\ daily.total_pago_dia = SumOfRows(daily.df, PaidToday)

\* a PAGO row is in Today, shown as AGENDADO and counted in the paid total,
\* while another PAGO row is in Overdue, still PAGO
C15_Witness ==
    /\ DailyBuckets
    /\ PaidToday # {}
    /\ daily.total_pago_dia > 0
    /\ \E k \in 1..Len(daily.df_hoje) : daily.df_hoje[k].STATUS = "AGENDADO"
    /\ \E k \in 1..Len(daily.df_atraso) : daily.df_atraso[k].STATUS = "PAGO"

(***************************************************************************)
(* C16: in the partner pie chart, for a partner with subscribed > 0: if    *)
(* contributed <= subscribed the displayed percent is                      *)
(* contributed/subscribed*100 and the remaining slice is 100 minus it      *)
(* (800 of 1000 gives 80.00%); if contributed > subscribed the slices are  *)
(* 100 and the excess (contributed - subscribed)/subscribed*100 (1200 of   *)
(* 1000 gives 20.00%); a partner with subscribed <= 0 and contributed <= 0 *)
(* gets no chart; no division by zero occurs for any partner.              *)
(***************************************************************************)
\* the slice p is the percentage a / b * 100
IsPercentOf(p, a, b) == p.num * b = 100 * a * p.den

\* the slices p and q add up to 100
AddUpTo100(p, q) == p.num * q.den + q.num * p.den = 100 * p.den * q.den

\* h hundredths of a percent is a / b * 100 to the nearest hundredth (b > 0)
IsShownPercentOf(h, a, b) ==
    LET diff == h * b - 10000 * a
    IN  2 * (IF diff < 0 THEN 0 - diff ELSE diff) <= b

C16_PartnerPie ==
    (proc = "pie_chart" /\ fn.applied) =>
        LET sub == fn.arg.subscrito
            int == fn.arg.integralizado
            ch  == fn.out
        IN  /\ ch.raised = "none"
            /\ (sub <= 0 /\ int <= 0) => ~ch.shown
            /\ (sub > 0 /\ int <= sub) =>
                  /\ ch.shown
                  /\ IsPercentOf(ch.valores[1], int, sub)
                  /\ AddUpTo100(ch.valores[1], ch.valores[2])
                  /\ IsShownPercentOf(ch.labels[1].pct, int, sub)
                  /\ IsShownPercentOf(ch.labels[2].pct, sub - int, sub)
            /\ (sub > 0 /\ int > sub) =>
                  /\ ch.shown
                  /\ IsPercentOf(ch.valores[1], 1, 1)
                  /\ IsPercentOf(ch.valores[2], int - sub, sub)
                  /\ ch.labels[1].pct = 10000
                  /\ IsShownPercentOf(ch.labels[2].pct, int - sub, sub)
            /\ (sub = 1000 /\ int = 800) =>
                  ch.labels[1].pct = 8000 /\ ch.labels[2].pct = 2000
            /\ (sub = 1000 /\ int = 1200) =>
                  ch.labels[1].pct = 10000 /\ ch.labels[2].pct = 2000

\* 1200 paid in of 1000 subscribed: the chart shows 100% and an excess of 20.00%
C16_Witness ==
    /\ proc = "pie_chart"
    /\ fn.applied
    /\ fn.arg = [subscrito |-> 1000, integralizado |-> 1200]
    /\ fn.out.shown
    /\ fn.out.labels[2] = [text |-> "Excedente", pct |-> 2000]

(***************************************************************************)
(* C17: in every run of the mailer's main entry, where the clock may       *)
(* advance between steps, the daily digest is dispatched before any weekly *)
(* digest, the weekly digest is dispatched only when the date checked by   *)
(* main is a Monday, and whenever the weekly digest is dispatched its      *)
(* window starts on a Saturday and ends on the Friday six days later.      *)
(***************************************************************************)
\* the positions of the weekly digests in the outbox
WeeklySent == {i \in 1..Len(outbox) : outbox[i].kind = "weekly"}

\* every weekly digest comes after a daily digest
DailyBeforeWeekly ==
    \A i \in WeeklySent : \E j \in 1..(i - 1) : outbox[j].kind = "daily"

\* a weekly digest is sent only in a run whose main saw a Monday
WeeklyOnlyOnMonday == WeeklySent # {} => weekday(hoje_main) = 0

C17_TierBehaviour ==
    proc = "mailer" =>
        /\ DailyBeforeWeekly
        /\ WeeklyOnlyOnMonday
        /\ (WeeklySent # {} /\ weekly.ran) =>
              /\ weekday(weekly.sabado_anterior) = 5
              /\ weekday(weekly.sexta_seguinte) = 4
              /\ weekly.sexta_seguinte = weekly.sabado_anterior + 6

====
